---- MODULE Spec2Model ----
(***************************************************************************)
(* Time-window scheduling engine of the smart organizer:                   *)
(*   _find_free_slot            (src/src/date_utils.py)                    *)
(*   find_and_block_free_slot   (src/src/calendar_tools.py)                *)
(*   plan_focus_blocks          (src/src/calendar_tools.py)                *)
(*                                                                         *)
(* Instants are integers counting minutes on one time line; a timedelta of *)
(* n minutes is the integer n.  astimezone() and _to_rfc3339() keep the    *)
(* instant (they change only its rendering), so an interval handed to the  *)
(* calendar is the pair <<start, end>> of the instants the code computed.  *)
(* The calendar service is a collaborator: what it answers (success, an    *)
(* exception, the events it lists) is an input of the step that calls it.  *)
(***************************************************************************)
EXTENDS Integers, Sequences, FiniteSets

VARIABLES
    pc,                \* position of the running call
    service,           \* TRUE once get_calendar_service() has returned
    window_start,      \* work window, from _work_hours_to_range
    window_end,
    busy,              \* clipped, sorted list of <<start, end>>
    duration_minutes,  \* find_and_block_free_slot's duration (timedelta)
    slot,              \* what _find_free_slot returned: None or <<start, end>>
    cursor,            \* loop cursor of the alternative search / the packing loop
    tries,             \* probes made by the alternative search
    suggestions,       \* alternatives accepted so far
    total_minutes,     \* plan_focus_blocks parameters
    block_len,
    break_len,
    minutes_left,      \* packing loop: minutes still to place
    created,           \* packing loop: blocks appended to `created`
    inserted,          \* the calendar: events made by events().insert(), in call order
    calls,             \* collaborator calls made so far, by kind
    probe,             \* the last probe of the alternative search and its answer
    raw_events,        \* `events` of lines 113-116, as _event_time_range reads them
    raised,            \* the exception the except clause caught, "none" without one
    result             \* what the tool returned to its caller

vars == <<pc, service, window_start, window_end, busy, duration_minutes, slot,
          cursor, tries, suggestions, total_minutes, block_len, break_len,
          minutes_left, created, inserted, calls, probe, raw_events, raised, result>>

---------------------------------------------------------------------------
(* Bounds of the checked instances *)

MaxT == 4          \* work windows lie in 0..MaxT
MaxW == 2          \* find_and_block_free_slot's work hours lie in 0..MaxW
MaxP == 4          \* plan_focus_blocks' work hours lie in 0..MaxP
MaxL == 3          \* windows of the packing loop taken on its own lie in 0..MaxL
MaxBusy == 3       \* entries of a busy list handed to _find_free_slot
MaxEvents == 2     \* events the calendar lists for one window
MaxDur == 3        \* durations range over -1..MaxDur
MaxTotal == 3      \* total_minutes ranges over 0..MaxTotal
MaxBlock == 2      \* block_len ranges over 0..MaxBlock
MaxBreak == 3      \* break_len ranges over -MaxBreak..MaxBreak

(* Program constants *)

MaxSuggestions == 3    \* while len(suggestions) < 3
MaxAttempts == 40      \* ... and tries < 40
Step == 30             \* step = timedelta(minutes=30)

None == <<>>           \* Python's None, where an interval is expected

NoCalls == [acquire |-> 0, fetch |-> 0, probe |-> 0, insert |-> 0]
NoProbe == [start |-> 0, end |-> 0, answer |-> "none"]

Max(a, b) == IF a >= b THEN a ELSE b
Min(a, b) == IF a <= b THEN a ELSE b

Instants == 0..MaxT
\* Events may begin before and end after the hours 0..h of a tool.
EventTimes(h) == (0 - 1)..(h + 1)
Durations == (0 - 1)..MaxDur

\* The work windows _work_hours_to_range returns: day_end > day_start.
Windows == {w \in Instants \X Instants : w[1] < w[2]}

\* Two half-open intervals share an instant.
Overlaps(a, b) == a[1] < b[2] /\ b[1] < a[2]

---------------------------------------------------------------------------
(* Busy lists: clipped to the window, sorted by start *)

\* What _event_time_range gives for the listed events: start <= end, any order.
RawEvents(h) == {e \in EventTimes(h) \X EventTimes(h) : e[1] <= e[2]}
RawEventLists(h) == UNION {[1..n -> RawEvents(h)] : n \in 0..MaxEvents}

\* ClipEvents with the test of line 119 written e >= s: an event that only
\* touches the window leaves an empty entry.
RECURSIVE ClipEventsKeepsEmpty(_, _, _)
ClipEventsKeepsEmpty(events, ws, we) ==
    IF events = <<>> THEN <<>>
    ELSE LET s == Max(Head(events)[1], ws)
             e == Min(Head(events)[2], we)
             rest == ClipEventsKeepsEmpty(Tail(events), ws, we)
         IN IF e >= s THEN <<(<<s, e>>)>> \o rest ELSE rest

\* s = max(s, window_start); e = min(e, window_end); if e > s: busy.append((s, e))
RECURSIVE ClipEvents(_, _, _)
ClipEvents(events, ws, we) ==
    IF events = <<>> THEN <<>>
    ELSE LET s == Max(Head(events)[1], ws)
             e == Min(Head(events)[2], we)
             rest == ClipEvents(Tail(events), ws, we)
         IN IF e > s THEN <<(<<s, e>>)>> \o rest ELSE rest

\* Insert x behind every entry whose start is <= x's start (stable).
RECURSIVE InsertByStart(_, _)
InsertByStart(sorted, x) ==
    IF sorted = <<>> THEN <<x>>
    ELSE IF Head(sorted)[1] <= x[1]
         THEN <<Head(sorted)>> \o InsertByStart(Tail(sorted), x)
         ELSE <<x>> \o sorted

\* busy.sort(key=lambda x: x[0]): stable, ascending by start.
RECURSIVE SortByStart(_)
SortByStart(s) ==
    IF s = <<>> THEN <<>>
    ELSE InsertByStart(SortByStart(SubSeq(s, 1, Len(s) - 1)), s[Len(s)])

ClipAndSort(events, ws, we) == SortByStart(ClipEvents(events, ws, we))

\* The busy lists lines 113-121 (and 184-192) can build for a window: one for
\* each list of events the calendar may answer with.
ListedBusy(ws, we, h) == {ClipAndSort(events, ws, we) : events \in RawEventLists(h)}

IsSortedByStart(b) == \A i \in 1..(Len(b) - 1) : b[i][1] <= b[i + 1][1]

\* Every busy list a window can have: entries inside the window, non-empty,
\* ascending by start, free to overlap or touch.
BusyIntervals(ws, we) == {b \in (ws..we) \X (ws..we) : b[1] < b[2]}
BusyLists(ws, we) ==
    {b \in UNION {[1..n -> BusyIntervals(ws, we)] : n \in 0..MaxBusy} :
        IsSortedByStart(b)}

---------------------------------------------------------------------------
(* _find_free_slot *)

\* ScanBusy with the gap test written > instead of >=: a gap of exactly
\* `duration` is passed over.
RECURSIVE ScanBusyStrictGap(_, _, _, _, _)
ScanBusyStrictGap(b, i, cur, we, duration) ==
    IF i > Len(b) THEN [found |-> FALSE, cursor |-> cur]
    ELSE IF b[i][2] <= cur THEN ScanBusyStrictGap(b, i + 1, cur, we, duration)
    ELSE IF b[i][1] - cur > duration THEN [found |-> TRUE, cursor |-> cur]
    ELSE IF Max(cur, b[i][2]) >= we THEN [found |-> FALSE, cursor |-> Max(cur, b[i][2])]
    ELSE ScanBusyStrictGap(b, i + 1, Max(cur, b[i][2]), we, duration)

\* The for loop over busy, from entry i on: where the cursor stands when the
\* loop ends, and whether it ended by the return inside the loop.
RECURSIVE ScanBusy(_, _, _, _, _)
ScanBusy(b, i, cur, we, duration) ==
    IF i > Len(b) THEN [found |-> FALSE, cursor |-> cur]
    ELSE IF b[i][2] <= cur THEN ScanBusy(b, i + 1, cur, we, duration)
    ELSE IF b[i][1] - cur >= duration THEN [found |-> TRUE, cursor |-> cur]
    ELSE IF Max(cur, b[i][2]) >= we THEN [found |-> FALSE, cursor |-> Max(cur, b[i][2])]
    ELSE ScanBusy(b, i + 1, Max(cur, b[i][2]), we, duration)

\* _find_free_slot without the test of line 192: the slot after the last
\* busy entry is returned whether or not it fits before window_end.
_find_free_slot_TailUnchecked(b, ws, we, duration) ==
    LET r == ScanBusy(b, 1, ws, we, duration)
    IN <<r.cursor, r.cursor + duration>>

\* _find_free_slot with the test of line 192 written >: a slot that ends
\* exactly at window_end is not returned.
_find_free_slot_TailStrict(b, ws, we, duration) ==
    LET r == ScanBusy(b, 1, ws, we, duration)
    IN IF r.found THEN <<r.cursor, r.cursor + duration>>
       ELSE IF we - r.cursor > duration THEN <<r.cursor, r.cursor + duration>>
       ELSE None

_find_free_slot(b, ws, we, duration) ==
    LET r == ScanBusy(b, 1, ws, we, duration)
    IN IF r.found THEN <<r.cursor, r.cursor + duration>>
       ELSE IF we - r.cursor >= duration THEN <<r.cursor, r.cursor + duration>>
       ELSE None

---------------------------------------------------------------------------
Init ==
    /\ pc = "idle"
    /\ service = FALSE
    /\ window_start = 0
    /\ window_end = 0
    /\ busy = <<>>
    /\ duration_minutes = 0
    /\ slot = None
    /\ cursor = 0
    /\ tries = 0
    /\ suggestions = <<>>
    /\ total_minutes = 0
    /\ block_len = 0
    /\ break_len = 0
    /\ minutes_left = 0
    /\ created = <<>>
    /\ inserted = <<>>
    /\ calls = NoCalls
    /\ probe = NoProbe
    /\ raw_events = <<>>
    /\ raised = "none"
    /\ result = [kind |-> "none", items |-> <<>>]

\* One call of _find_free_slot on a busy list of the window.
FindFreeSlotCall ==
    /\ pc = "idle"
    /\ \E w \in Windows, d \in Durations :
         \E b \in BusyLists(w[1], w[2]) :
            /\ window_start' = w[1]
            /\ window_end' = w[2]
            /\ busy' = b
            /\ duration_minutes' = d
            /\ slot' = _find_free_slot(b, w[1], w[2], d)
    /\ pc' = "slot_done"
    /\ UNCHANGED <<raw_events, raised, service, cursor, tries, suggestions, total_minutes, block_len,
                   break_len, minutes_left, created, inserted, calls, probe, result>>

NextSlot == FindFreeSlotCall

SpecSlot == Init /\ [][NextSlot]_vars

---------------------------------------------------------------------------
(* find_and_block_free_slot *)

Error == [kind |-> "error", items |-> <<>>]     \* return f"Ошибка: {e}"

\* Lines 107-123 and the test of line 124: the service is acquired, the work
\* window resolved, the window's events listed, clipped and sorted, and
\* _find_free_slot called.  The busy list is not read after that call.
FindBegin ==
    /\ pc = "idle"
    /\ \E ws \in 0..MaxW, we \in 0..MaxW :
       \E b \in ListedBusy(ws, we, MaxW) :
       \E d \in Durations, acquired \in BOOLEAN, listed \in BOOLEAN :
         LET found == _find_free_slot(b, ws, we, d)
         IN
         /\ duration_minutes' = d
         /\ service' = acquired
         /\ IF ~acquired
            THEN \* get_calendar_service() raised
                 /\ calls' = [calls EXCEPT !.acquire = @ + 1]
                 /\ raised' = "ServiceError"
                 /\ pc' = "done" /\ result' = Error
                 /\ UNCHANGED <<window_start, window_end, slot, cursor>>
            ELSE IF we <= ws
            THEN \* _work_hours_to_range raised ValueError
                 /\ calls' = [calls EXCEPT !.acquire = @ + 1]
                 /\ raised' = "ValueError"
                 /\ pc' = "done" /\ result' = Error
                 /\ UNCHANGED <<window_start, window_end, slot, cursor>>
            ELSE IF ~listed
            THEN \* _get_events_between raised
                 /\ calls' = [calls EXCEPT !.acquire = @ + 1, !.fetch = @ + 1]
                 /\ window_start' = ws /\ window_end' = we
                 /\ raised' = "HttpError"
                 /\ pc' = "done" /\ result' = Error
                 /\ UNCHANGED <<slot, cursor>>
            ELSE /\ calls' = [calls EXCEPT !.acquire = @ + 1, !.fetch = @ + 1]
                 /\ window_start' = ws /\ window_end' = we
                 /\ slot' = found
                 /\ IF found = None
                    THEN pc' = "suggest" /\ cursor' = we
                    ELSE pc' = "book" /\ UNCHANGED cursor
                 /\ UNCHANGED <<result, raised>>
    /\ UNCHANGED <<raw_events, busy, tries, suggestions, total_minutes, block_len, break_len,
                   minutes_left, created, inserted, probe>>

\* The loop test with <= 3: a fourth suggestion is collected.
SuggestLoopExtraSuggestion(sugg, n) == Len(sugg) <= MaxSuggestions /\ n < MaxAttempts

\* The loop test with <= 40: a forty-first probe is made.
SuggestLoopExtraAttempt(sugg, n) == Len(sugg) < MaxSuggestions /\ n <= MaxAttempts

\* while len(suggestions) < 3 and tries < 40
SuggestLoop(sugg, n) == Len(sugg) < MaxSuggestions /\ n < MaxAttempts

\* The state after one completed iteration of the alternative search; when
\* the loop condition fails, the list is returned (lines 140-141).
AfterProbe(sugg, cur, s, e, ans) ==
    /\ suggestions' = sugg
    /\ cursor' = cur
    /\ tries' = tries + 1
    /\ probe' = [start |-> s, end |-> e, answer |-> ans]
    /\ calls' = [calls EXCEPT !.probe = @ + 1]
    /\ IF SuggestLoop(sugg, tries + 1)
       THEN pc' = "suggest" /\ UNCHANGED result
       ELSE pc' = "done" /\ result' = [kind |-> "alternatives", items |-> sugg]
    /\ UNCHANGED <<raw_events, raised, service, window_start, window_end, busy, duration_minutes, slot,
                   total_minutes, block_len, break_len, minutes_left, created,
                   inserted>>

\* The probe lists no event: the candidate is accepted, the cursor moves to its end.
ProbeFree ==
    /\ pc = "suggest"
    /\ LET s == cursor
           e == cursor + duration_minutes
       IN AfterProbe(Append(suggestions, <<s, e>>), e, s, e, "free")

\* The probe lists an event: the cursor moves one step on.
ProbeConflict ==
    /\ pc = "suggest"
    /\ LET s == cursor
           e == cursor + duration_minutes
       IN AfterProbe(suggestions, cursor + Step, s, e, "conflict")

\* The probe raises: the except clause of line 156 returns the error text.
ProbeFail ==
    /\ pc = "suggest"
    /\ probe' = [start |-> cursor, end |-> cursor + duration_minutes, answer |-> "error"]
    /\ calls' = [calls EXCEPT !.probe = @ + 1]
    /\ raised' = "HttpError"
    /\ pc' = "done"
    /\ result' = Error
    /\ UNCHANGED <<raw_events, service, window_start, window_end, busy, duration_minutes, slot,
                   cursor, tries, suggestions, total_minutes, block_len, break_len,
                   minutes_left, created, inserted>>

\* Lines 143-155: the slot is inserted and reported.
Book ==
    /\ pc = "book"
    /\ inserted' = Append(inserted, slot)
    /\ calls' = [calls EXCEPT !.insert = @ + 1]
    /\ pc' = "done"
    /\ result' = [kind |-> "booked", items |-> <<slot>>]
    /\ UNCHANGED <<raw_events, raised, service, window_start, window_end, busy, duration_minutes, slot,
                   cursor, tries, suggestions, total_minutes, block_len, break_len,
                   minutes_left, created, probe>>

\* events().insert() raises.
BookFail ==
    /\ pc = "book"
    /\ calls' = [calls EXCEPT !.insert = @ + 1]
    /\ raised' = "HttpError"
    /\ pc' = "done"
    /\ result' = Error
    /\ UNCHANGED <<raw_events, service, window_start, window_end, busy, duration_minutes, slot,
                   cursor, tries, suggestions, total_minutes, block_len, break_len,
                   minutes_left, created, inserted, probe>>

NextFind == FindBegin \/ ProbeFree \/ ProbeConflict \/ ProbeFail \/ Book \/ BookFail

SpecFind == Init /\ [][NextFind]_vars

---------------------------------------------------------------------------
(* plan_focus_blocks *)

Totals == 0..MaxTotal
BlockLens == 0..MaxBlock
BreakLens == (0 - MaxBreak)..MaxBreak

\* The loop test with minutes_left >= 0: one more block after the total is placed.
PackLoopNonNegative(left, cur) == left >= 0 /\ cur < window_end

\* while minutes_left > 0 and cursor < window_end
PackLoop(left, cur) == left > 0 /\ cur < window_end

\* cursor < b_end and (cursor + block_len) > b_start
Conflicts(cur, b) == cur < b[2] /\ cur + block_len > b[1]

\* The entries of busy the block at cur conflicts with; the for loop of
\* line 200 stops at the first of them.
ConflictIndexes(cur) == {i \in 1..Len(busy) : Conflicts(cur, busy[i])}
FirstConflict(cur) ==
    CHOOSE i \in ConflictIndexes(cur) : \A j \in ConflictIndexes(cur) : i <= j

\* Lines 230-232: what the tool returns when the loop has ended.
PlanResult(blocks) ==
    IF blocks = <<>> THEN [kind |-> "not_placed", items |-> <<>>]
    ELSE [kind |-> "created_blocks", items |-> blocks]

\* Lines 175-196: the configuration is validated, the service acquired, the
\* work window resolved, its events listed, clipped and sorted, and the loop
\* variables set.
PlanBegin ==
    /\ pc = "idle"
    /\ \E ws \in 0..MaxP, we \in 0..MaxP :
       \E b \in ListedBusy(ws, we, MaxP) :
       \E total \in Totals, blen \in BlockLens, brk \in BreakLens,
          acquired \in BOOLEAN, listed \in BOOLEAN :
         /\ total_minutes' = total
         /\ block_len' = blen
         /\ break_len' = brk
         /\ IF blen <= 0 \/ total <= 0
            THEN \* return "block_len и total_minutes должны быть > 0."
                 /\ pc' = "done"
                 /\ result' = [kind |-> "invalid", items |-> <<>>]
                 /\ UNCHANGED <<raised, service, calls, window_start, window_end, busy,
                                minutes_left, cursor>>
            ELSE IF ~acquired
            THEN \* get_calendar_service() raised
                 /\ calls' = [calls EXCEPT !.acquire = @ + 1]
                 /\ raised' = "ServiceError"
                 /\ pc' = "done" /\ result' = Error
                 /\ UNCHANGED <<service, window_start, window_end, busy,
                                minutes_left, cursor>>
            ELSE IF we <= ws
            THEN \* _work_hours_to_range raised ValueError
                 /\ calls' = [calls EXCEPT !.acquire = @ + 1]
                 /\ service' = TRUE
                 /\ raised' = "ValueError"
                 /\ pc' = "done" /\ result' = Error
                 /\ UNCHANGED <<window_start, window_end, busy, minutes_left, cursor>>
            ELSE IF ~listed
            THEN /\ calls' = [calls EXCEPT !.acquire = @ + 1, !.fetch = @ + 1]
                 /\ service' = TRUE
                 /\ window_start' = ws /\ window_end' = we
                 /\ raised' = "HttpError"
                 /\ pc' = "done" /\ result' = Error
                 /\ UNCHANGED <<busy, minutes_left, cursor>>
            ELSE /\ calls' = [calls EXCEPT !.acquire = @ + 1, !.fetch = @ + 1]
                 /\ service' = TRUE
                 /\ window_start' = ws /\ window_end' = we
                 /\ busy' = b
                 /\ minutes_left' = total
                 /\ cursor' = ws
                 /\ pc' = "pack"
                 /\ UNCHANGED <<result, raised>>
    /\ UNCHANGED <<raw_events, duration_minutes, slot, tries, suggestions, created, inserted,
                   probe>>

\* The loop test after an iteration that left `left` minutes, the cursor at
\* cur and `blocks` created: another iteration, or the return of lines 230-232.
PackNext(left, cur, blocks) ==
    /\ minutes_left' = left
    /\ cursor' = cur
    /\ created' = blocks
    /\ IF PackLoop(left, cur)
       THEN pc' = "pack" /\ UNCHANGED result
       ELSE pc' = "done" /\ result' = PlanResult(blocks)
    /\ UNCHANGED <<raw_events, raised, service, window_start, window_end, busy, duration_minutes, slot,
                   tries, suggestions, total_minutes, block_len, break_len, probe>>

\* PackSkip with cursor = b_start in place of cursor = b_end: the cursor does
\* not get past the conflicting entry.
PackSkipToStart ==
    /\ pc = "pack"
    /\ ConflictIndexes(cursor) # {}
    /\ PackNext(minutes_left, busy[FirstConflict(cursor)][1], created)
    /\ UNCHANGED <<inserted, calls>>

\* Lines 199-206: the block at the cursor conflicts; the cursor jumps to the
\* end of the first conflicting entry.
PackSkip ==
    /\ pc = "pack"
    /\ ConflictIndexes(cursor) # {}
    /\ PackNext(minutes_left, busy[FirstConflict(cursor)][2], created)
    /\ UNCHANGED <<inserted, calls>>

\* Lines 208-209: no conflict, and the block would end after the window.
PackStop ==
    /\ pc = "pack"
    /\ ConflictIndexes(cursor) = {}
    /\ cursor + block_len > window_end
    /\ pc' = "done"
    /\ result' = PlanResult(created)
    /\ UNCHANGED <<raw_events, raised, service, window_start, window_end, busy, duration_minutes, slot,
                   cursor, tries, suggestions, total_minutes, block_len, break_len,
                   minutes_left, created, inserted, calls, probe>>

\* cursor + timedelta(minutes=block_len + (break_len if minutes_left > 0 else 0))
Advance(cur, left) == cur + block_len + (IF left > 0 THEN break_len ELSE 0)

\* Lines 211-228: the block is inserted and recorded, the minutes taken off,
\* the cursor moved past the block and, when minutes remain, the break.
PackCreate ==
    /\ pc = "pack"
    /\ ConflictIndexes(cursor) = {}
    /\ cursor + block_len <= window_end
    /\ inserted' = Append(inserted, <<cursor, cursor + block_len>>)
    /\ calls' = [calls EXCEPT !.insert = @ + 1]
    /\ PackNext(minutes_left - block_len,
                Advance(cursor, minutes_left - block_len),
                Append(created, <<cursor, cursor + block_len>>))

\* events().insert() raises: the except clause of line 233 returns the error text.
PackCreateFail ==
    /\ pc = "pack"
    /\ ConflictIndexes(cursor) = {}
    /\ cursor + block_len <= window_end
    /\ calls' = [calls EXCEPT !.insert = @ + 1]
    /\ raised' = "HttpError"
    /\ pc' = "done"
    /\ result' = Error
    /\ UNCHANGED <<raw_events, service, window_start, window_end, busy, duration_minutes, slot,
                   cursor, tries, suggestions, total_minutes, block_len, break_len,
                   minutes_left, created, inserted, probe>>

NextPlan == PlanBegin \/ PackSkip \/ PackStop \/ PackCreate \/ PackCreateFail

SpecPlan == Init /\ [][NextPlan]_vars

\* One iteration of the packing loop.
PackStep == PackSkip \/ PackStop \/ PackCreate \/ PackCreateFail

(* The packing loop of lines 194-228 on its own.  Its inputs are drawn in two *)
(* steps: the window with the busy list lines 184-192 built for it, then the *)
(* numbers that passed the test of line 176.                                 *)

\* Lines 179-192 have run: the service is held, the events are listed.
PackWindow ==
    /\ pc = "idle"
    /\ \E ws \in 0..MaxL, we \in 0..MaxL :
         /\ ws < we
         /\ \E b \in ListedBusy(ws, we, MaxL) :
              /\ window_start' = ws /\ window_end' = we
              /\ busy' = b
    /\ service' = TRUE
    /\ calls' = [calls EXCEPT !.acquire = @ + 1, !.fetch = @ + 1]
    /\ pc' = "listed"
    /\ UNCHANGED <<raw_events, duration_minutes, slot, cursor, tries, suggestions,
                   total_minutes, block_len, break_len, minutes_left, created,
                   inserted, probe, raised, result>>

\* Lines 194-197: minutes_left = total_minutes, cursor = day_start.
PackEnter ==
    /\ pc = "listed"
    /\ \E total \in Totals, blen \in BlockLens, brk \in BreakLens :
         /\ total > 0 /\ blen > 0
         /\ total_minutes' = total
         /\ block_len' = blen
         /\ break_len' = brk
         /\ minutes_left' = total
    /\ cursor' = window_start
    /\ pc' = "pack"
    /\ UNCHANGED <<raw_events, service, window_start, window_end, busy, duration_minutes,
                   slot, tries, suggestions, created, inserted, calls, probe, raised,
                   result>>

NextPack == PackWindow \/ PackEnter \/ PackStep

\* The tool runs on one thread and every call it makes returns or raises: an
\* iteration that can be taken is taken.
SpecPack == Init /\ [][NextPack]_vars /\ WF_vars(PackStep)

---------------------------------------------------------------------------
(* The busy list of lines 113-121 (and 184-192), with the listed events kept *)

\* The events of a window are listed, clipped and sorted.
ClipAndSortCall ==
    /\ pc = "idle"
    /\ \E ws \in 0..MaxW, we \in 0..MaxW :
         /\ ws < we
         /\ \E evs \in RawEventLists(MaxW) :
              /\ window_start' = ws
              /\ window_end' = we
              /\ raw_events' = evs
              /\ busy' = ClipAndSort(evs, ws, we)
    /\ pc' = "clip_done"
    /\ UNCHANGED <<service, duration_minutes, slot, cursor, tries, suggestions,
                   total_minutes, block_len, break_len, minutes_left, created,
                   inserted, calls, probe, raised, result>>

NextClip == ClipAndSortCall

SpecClip == Init /\ [][NextClip]_vars

---------------------------------------------------------------------------
(* Claims about _find_free_slot, checked under SpecSlot *)

SlotReturned == pc = "slot_done" /\ duration_minutes > 0 /\ slot # None

\* [t, t + duration) lies inside the window and overlaps no busy interval.
FitsAt(t) ==
    /\ window_start <= t
    /\ t + duration_minutes <= window_end
    /\ \A i \in 1..Len(busy) : ~Overlaps(<<t, t + duration_minutes>>, busy[i])

\* C1: for a valid window, a duration > 0 and a busy list clipped to the
\* window and sorted by start (overlapping or adjacent entries allowed), a
\* slot that _find_free_slot returns starts at or after window_start, ends
\* at or before window_end, is exactly `duration` long and overlaps no busy
\* interval.
C1_SlotInsideWindowAndFree ==
    SlotReturned =>
        /\ slot[1] >= window_start
        /\ slot[2] <= window_end
        /\ slot[2] - slot[1] = duration_minutes
        /\ \A i \in 1..Len(busy) : ~Overlaps(slot, busy[i])

\* A slot returned behind two overlapping busy entries, with a busy entry after it.
C1_Witness ==
    /\ SlotReturned
    /\ Len(busy) = 2
    /\ Overlaps(busy[1], busy[2])
    /\ slot[1] > window_start
    /\ slot[2] < window_end

\* C2: earliest fit: when _find_free_slot returns a slot starting at s, no
\* instant t with window_start <= t < s has [t, t + duration) inside the
\* window and free of every busy interval.
C2_EarliestFit ==
    SlotReturned => \A t \in window_start..(slot[1] - 1) : ~FitsAt(t)

\* A slot returned in the gap between two busy entries, not at the window's start.
C2_Witness ==
    /\ SlotReturned
    /\ Len(busy) = 2
    /\ slot[1] = busy[1][2]
    /\ slot[1] > window_start
    /\ slot[2] <= busy[2][1]

---------------------------------------------------------------------------
(* Claims about find_and_block_free_slot, checked under SpecFind *)

\* The shape of a list of alternatives.
AlternativesShape(list) ==
    /\ Len(list) <= MaxSuggestions
    /\ \A i \in 1..Len(list) : list[i][2] - list[i][1] = duration_minutes
    /\ (list # <<>> => list[1][1] >= window_end)
    /\ \A i \in 1..(Len(list) - 1) :
          list[i + 1][1] > list[i][1] /\ list[i + 1][1] >= list[i][2]

\* C6: the alternatives built after _find_free_slot returned None are at most
\* MaxSuggestions, each exactly `duration` long, the first starting at or
\* after window_end, each starting after the start and at or after the end
\* of the one before it, and each is the candidate of a probe that reported
\* no conflict; the list returned is the list so built.
C6_Alternatives ==
    [][ /\ (pc' \in {"suggest", "done"} /\ slot' = None /\ duration_minutes' > 0
              => AlternativesShape(suggestions'))
        /\ (suggestions' # suggestions
              => /\ probe'.answer = "free"
                 /\ suggestions' = Append(suggestions, <<probe'.start, probe'.end>>))
        /\ (result'.kind = "alternatives"
              => result'.items = suggestions' /\ AlternativesShape(result'.items))
      ]_vars

\* Three alternatives returned, the second not touching the first.
C6_Witness ==
    /\ pc = "done"
    /\ result.kind = "alternatives"
    /\ Len(result.items) = MaxSuggestions
    /\ result.items[2][1] > result.items[1][2]
    /\ result.items[1][1] > window_end

\* C7: the alternative search makes at most MaxAttempts probes, each at a
\* candidate start after the one before; when every probe reported a
\* conflict it ends after exactly MaxAttempts probes with an empty list.
C7_BoundedAscendingProbes ==
    [][ /\ calls'.probe <= MaxAttempts
        /\ (pc = "suggest" => calls'.probe = calls.probe + 1 /\ tries < MaxAttempts)
        /\ (calls'.probe > calls.probe /\ calls.probe > 0 => probe'.start > probe.start)
        /\ (pc = "suggest" /\ pc' = "done" /\ suggestions' = <<>>
              /\ probe'.answer # "error"
              => /\ calls'.probe = MaxAttempts
                 /\ result' = [kind |-> "alternatives", items |-> <<>>])
      ]_vars

\* The search ended after MaxAttempts probes that all reported a conflict.
C7_Witness ==
    /\ pc = "done"
    /\ result.kind = "alternatives"
    /\ result.items = <<>>
    /\ calls.probe = MaxAttempts
    /\ probe.answer = "conflict"

\* C9: when a probe fails during the alternative search, the result returned
\* to the caller holds the error together with every suggestion accepted
\* before the failure.
C9_ProbeFailureKeepsSuggestions ==
    (pc = "done" /\ probe.answer = "error")
        => (result.kind = "error" /\ result.items = suggestions)

\* C10: with duration <= 0 _find_free_slot returns no slot, and
\* find_and_block_free_slot inserts no event.
C10_NonPositiveDurationRejected ==
    (pc # "idle" /\ duration_minutes <= 0) => (slot = None /\ inserted = <<>>)

---------------------------------------------------------------------------
(* Claims about plan_focus_blocks, checked under SpecPlan *)

Packing == pc \in {"pack", "done"} /\ block_len > 0 /\ total_minutes > 0

\* C3: every block plan_focus_blocks creates is exactly block_len long, lies
\* inside [window_start, window_end] and overlaps no interval of the busy list.
C3_BlocksInsideWindowAndFree ==
    Packing =>
        \A i \in 1..Len(inserted) :
            /\ inserted[i][2] - inserted[i][1] = block_len
            /\ window_start <= inserted[i][1]
            /\ inserted[i][2] <= window_end
            /\ \A j \in 1..Len(busy) : ~Overlaps(inserted[i], busy[j])

\* C4: the create calls are made in strictly ascending start time and each
\* block starts at or after the end of the block created before it.
C4_BlocksAscendingDisjoint ==
    Packing =>
        \A i \in 1..(Len(inserted) - 1) :
            /\ inserted[i + 1][1] > inserted[i][1]
            /\ inserted[i + 1][1] >= inserted[i][2]

\* C5 as claimed: the number of created blocks times block_len is at most
\* total_minutes (looked at where break_len >= 0, so that no block is placed
\* twice).
C5_PlacedAtMostTotal ==
    (Packing /\ break_len >= 0) => Len(inserted) * block_len <= total_minutes

\* C5 as amended: a block is created only while minutes are left, so the
\* number of created blocks times block_len stays below total_minutes +
\* block_len, for every break_len.
C5_PlacedBelowTotalPlusBlock ==
    Packing => Len(inserted) * block_len < total_minutes + block_len

\* A run that ended having placed more than total_minutes, break_len >= 0.
C5_Witness ==
    /\ Packing
    /\ pc = "done"
    /\ break_len >= 0
    /\ Len(inserted) >= 2
    /\ Len(inserted) * block_len > total_minutes

\* C8: when the create call fails, no further create call is made, the blocks
\* already created stay in the calendar, and the result holds the error
\* together with all blocks already accepted (looked at where break_len >= 0).
C8_CreateFailureKeepsBlocks ==
    (Packing /\ break_len >= 0 /\ pc = "done" /\ calls.insert > Len(inserted))
        => /\ calls.insert = Len(inserted) + 1
           /\ inserted = created
           /\ result.kind = "error"
           /\ result.items = created

---------------------------------------------------------------------------
(* Claims about the order of validation and collaborator calls *)

\* The call was rejected as invalid input: by the test of line 176, or by the
\* ValueError of _work_hours_to_range for a window with end <= start.
RejectedAsInvalid == pc = "done" /\ (result.kind = "invalid" \/ raised = "ValueError")

\* C11: a request rejected as invalid input (block_len <= 0, total_minutes <= 0,
\* or a work window with end <= start) is rejected before any collaborator
\* call: the calendar service was not acquired, no events were listed or
\* probed, no event was created.
C11_InvalidInputBeforeAnyCall ==
    RejectedAsInvalid => (calls = NoCalls /\ service = FALSE /\ inserted = <<>>)

---------------------------------------------------------------------------
(* Claims about the busy list, checked under SpecClip *)

\* The part of the event ev that lies in [window_start, window_end].
InWindow(ev) ==
    <<IF ev[1] < window_start THEN window_start ELSE ev[1],
      IF ev[2] > window_end THEN window_end ELSE ev[2]>>

\* How often x is the in-window part of a listed event, and how often it is
\* an entry of busy.
TimesListed(x) == Cardinality({i \in 1..Len(raw_events) : InWindow(raw_events[i]) = x})
TimesBusy(x) == Cardinality({j \in 1..Len(busy) : busy[j] = x})

\* C12: the busy list holds exactly the intersections of the listed events
\* with [window_start, window_end] that have positive length: every entry
\* has window_start <= start < end <= window_end, events whose clipped length
\* is <= 0 are absent, no other event is lost, and the entries ascend by start.
C12_BusyIsClippedAndSorted ==
    pc = "clip_done" =>
        /\ \A j \in 1..Len(busy) :
              window_start <= busy[j][1] /\ busy[j][1] < busy[j][2]
                  /\ busy[j][2] <= window_end
        /\ \A x \in BusyIntervals(window_start, window_end) :
              TimesBusy(x) = TimesListed(x)
        /\ \A j \in 1..(Len(busy) - 1) : busy[j][1] <= busy[j + 1][1]

\* Two events listed out of order, both kept, the earlier one cut at the
\* window's start and the later one at its end.
C12_Witness ==
    /\ pc = "clip_done"
    /\ Len(raw_events) = 2
    /\ Len(busy) = 2
    /\ raw_events[1][1] > raw_events[2][1]
    /\ raw_events[2][1] < window_start
    /\ raw_events[1][2] > window_end
    /\ busy[1][1] = window_start
    /\ busy[2][2] = window_end

\* An event outside the window is dropped, the other one kept.
C12_WitnessDropped ==
    /\ pc = "clip_done"
    /\ Len(raw_events) = 2
    /\ Len(busy) = 1
    /\ raw_events[1][1] >= window_end

---------------------------------------------------------------------------
(* Completeness of _find_free_slot, checked under SpecSlot *)

\* C13: for a valid window, a duration > 0 and a busy list clipped to the
\* window and sorted by start, _find_free_slot returns None only if no
\* interval of length `duration` inside the window is free of all busy
\* intervals; with an empty busy list and duration <= window_end -
\* window_start it returns the slot starting at window_start.
C13_NoneOnlyWhenNothingFits ==
    (pc = "slot_done" /\ duration_minutes > 0) =>
        /\ (slot = None => \A t \in window_start..window_end : ~FitsAt(t))
        /\ (busy = <<>> /\ duration_minutes <= window_end - window_start
              => slot = <<window_start, window_start + duration_minutes>>)

\* None returned for a duration the window could hold, with free time between
\* and after the busy entries, each stretch too short.
C13_Witness ==
    /\ pc = "slot_done"
    /\ duration_minutes > 0
    /\ duration_minutes <= window_end - window_start
    /\ slot = None
    /\ Len(busy) = 2
    /\ busy[1][2] < busy[2][1]
    /\ busy[2][2] < window_end

---------------------------------------------------------------------------
(* Termination of the packing loop, checked under SpecPack     *)

BusyEnds == {busy[j][2] : j \in 1..Len(busy)}

\* An iteration that makes no create call either leaves the loop with the
\* cursor where it was (line 209), or is a conflict skip: the cursor moves
\* strictly forward to the end of a busy entry, the minutes left unchanged.
SkipMovesForward ==
    (pc = "pack" /\ calls' = calls)
        => \/ pc' = "done" /\ cursor' = cursor
           \/ cursor' > cursor /\ cursor' \in BusyEnds /\ minutes_left' = minutes_left

\* An accepted block takes block_len > 0 off the minutes left.
AcceptTakesMinutes ==
    (pc = "pack" /\ Len(inserted') > Len(inserted))
        => minutes_left' = minutes_left - block_len /\ minutes_left' < minutes_left

\* C14: the packing loop terminates for every window, busy list and
\* configuration with block_len > 0 and total_minutes > 0: each conflict skip
\* moves the cursor strictly forward to the end of a busy interval, each
\* accepted block strictly decreases the minutes left, the loop is left, and
\* at most ceil(total_minutes / block_len) blocks are created.
C14_PackingTerminates ==
    /\ [][SkipMovesForward /\ AcceptTakesMinutes]_vars
    /\ [](Packing => (Len(inserted) - 1) * block_len < total_minutes)
    /\ [](pc = "pack" => (minutes_left > 0 /\ cursor < window_end))
    /\ ((pc = "pack") ~> (pc = "done"))

\* A finished run that placed a block, skipped a busy entry and placed another.
C14_Witness ==
    /\ pc = "done"
    /\ result.kind = "created_blocks"
    /\ break_len >= 0
    /\ Len(inserted) = 2
    /\ busy # <<>>
    /\ inserted[2][1] > inserted[1][2] + break_len
    /\ inserted[2][1] \in BusyEnds
    /\ minutes_left <= 0

====
